---- MODULE Spec2Model ----
(***************************************************************************)
(* Model of src/options.rs (rumqtt): the MqttOptions value, its            *)
(* constructor and its consuming setters.  A run of the model is one       *)
(* builder chain: MqttOptions::new(id, addr) followed by setter calls,     *)
(* each of which consumes the value and returns the next one, or panics.   *)
(***************************************************************************)
EXTENDS Integers, Sequences, FiniteSets

\* ------------------------------------------------------------------ bounds
\* Longest chain of setter calls after MqttOptions::new.
MaxCalls == 3
\* Width of usize in the modelled target (the real targets have 32 or 64).
WordBits == 20

\* ------------------------------------------------------------ value domains
\* Option<T>
Some(x) == <<"Some", x>>
None == <<"None">>

\* Outcome of a call that takes self by value: the returned value, or a panic.
Ok(v) == <<"Ok", v>>
Panic == <<"Panic">>

\* usize and u16 value ranges
UsizeModulus == 2 ^ WordBits
U16Modulus == 2 ^ 16

\* Duration::from_secs(s): a duration is modelled by its whole seconds.
from_secs(s) == s

\* enum ReconnectOptions
Never == <<"Never">>
AfterFirstSuccess(d) == <<"AfterFirstSuccess", d>>
Always(d) == <<"Always", d>>
ReconnectOptions ==
    {Never} \cup {AfterFirstSuccess(from_secs(d)) : d \in {10}}
            \cup {Always(from_secs(d)) : d \in {10}}

\* struct TlsOptions; the Arc<RustlsConfig> is modelled by the identity of the
\* configuration it shares.
TlsOptions_new(hostname, config) == [hostname |-> hostname, config |-> config]
TlsArgs ==
    {None, Some(TlsOptions_new("broker.example", "cfg-1")),
           Some(TlsOptions_new("other.example", "cfg-2"))}

\* mqtt3::LastWill is opaque to this file.
LastWillArgs == {None, Some("will-1"), Some("will-2")}

\* Arguments tried for each parameter.
ClientIds == {"client-1", ""}
BrokerAddrs == {"broker.example:1883", "127.0.0.1:1883"}
KeepAliveArgs == {0, 4, 5, 15, U16Modulus - 1}
PacketSizeArgs ==
    {0, 50, 256, UsizeModulus \div 1024 - 1, UsizeModulus \div 1024,
     UsizeModulus - 1}

\* The fields of struct MqttOptions.
Fields ==
    {"broker_addr", "keep_alive", "clean_session", "client_id",
     "mqtt_connection_timeout", "reconnect", "max_packet_size", "last_will",
     "tls"}

\* ------------------------------------------------------------------- state
VARIABLES
    pc,               \* "start", "ok" (a value is held) or "panicked"
    opts,             \* Some(the MqttOptions value held) or None
    calls,            \* the calls made so far, MqttOptions::new first
    overflow_checks   \* the build: TRUE when integer overflow panics
                      \* (debug profile), FALSE when it wraps (release)

vars == <<pc, opts, calls, overflow_checks>>

\* -------------------------------------------------------------- operations
\* Variant of new that starts with a persistent session.
new_persistent(id, addr) ==
    [broker_addr |-> addr,
     keep_alive |-> Some(10),
     clean_session |-> FALSE,
     client_id |-> id,
     mqtt_connection_timeout |-> from_secs(5),
     reconnect |-> AfterFirstSuccess(from_secs(10)),
     max_packet_size |-> 100 * 1024,
     last_will |-> None,
     tls |-> None]

\* MqttOptions::new
new(id, addr) ==
    [broker_addr |-> addr,
     keep_alive |-> Some(10),
     clean_session |-> TRUE,
     client_id |-> id,
     mqtt_connection_timeout |-> from_secs(5),
     reconnect |-> AfterFirstSuccess(from_secs(10)),
     max_packet_size |-> 100 * 1024,
     last_will |-> None,
     tls |-> None]

\* Variant of set_keep_alive whose floor test is off by one (<= for <).
set_keep_alive_strict(self, secs) ==
    IF secs <= 5
    THEN Panic
    ELSE Ok([self EXCEPT !.keep_alive = Some(secs)])

\* Variant of set_keep_alive with the floor test left out.
set_keep_alive_unchecked(self, secs) ==
    Ok([self EXCEPT !.keep_alive = Some(secs)])

\* Variant of set_keep_alive that takes 0 to mean "no keep alive".
set_keep_alive_zero_disables(self, secs) ==
    IF secs = 0
    THEN Ok([self EXCEPT !.keep_alive = None])
    ELSE IF secs < 5
         THEN Panic
         ELSE Ok([self EXCEPT !.keep_alive = Some(secs)])

\* MqttOptions::set_keep_alive
set_keep_alive(self, secs) ==
    IF secs < 5
    THEN Panic
    ELSE Ok([self EXCEPT !.keep_alive = Some(secs)])

\* usize multiplication: overflow panics when the build checks overflow and
\* wraps otherwise.
usize_mul(a, b) ==
    IF a * b >= UsizeModulus
    THEN IF overflow_checks THEN Panic ELSE Ok((a * b) % UsizeModulus)
    ELSE Ok(a * b)

\* MqttOptions::set_max_packet_size
set_max_packet_size(self, sz) ==
    LET bytes == usize_mul(sz, 1024)
    IN  IF bytes[1] = "Panic"
        THEN Panic
        ELSE Ok([self EXCEPT !.max_packet_size = bytes[2]])

\* Variant of set_clean_session that also puts the packet size limit back to
\* its default.
set_clean_session_resets_size(self, clean_session) ==
    Ok([self EXCEPT !.clean_session = clean_session,
                    !.max_packet_size = 100 * 1024])

\* MqttOptions::set_clean_session
set_clean_session(self, clean_session) ==
    Ok([self EXCEPT !.clean_session = clean_session])

\* Variant of set_reconnect_opts that also starts a fresh session.
set_reconnect_opts_cleans(self, o) ==
    Ok([self EXCEPT !.reconnect = o, !.clean_session = TRUE])

\* MqttOptions::set_reconnect_opts
set_reconnect_opts(self, o) ==
    Ok([self EXCEPT !.reconnect = o])

\* Variant of set_tls_opts that keeps the old configuration when given None.
set_tls_opts_keeps(self, o) ==
    IF o = None THEN Ok(self) ELSE Ok([self EXCEPT !.tls = o])

\* MqttOptions::set_tls_opts
set_tls_opts(self, o) ==
    Ok([self EXCEPT !.tls = o])

\* MqttOptions::set_last_will
set_last_will(self, will) ==
    Ok([self EXCEPT !.last_will = will])

\* ------------------------------------------------------------------ actions
Setters ==
    {"set_keep_alive", "set_max_packet_size", "set_clean_session",
     "set_reconnect_opts", "set_tls_opts", "set_last_will"}

Call(op, arg) == [op |-> op, arg |-> arg]

\* The result of one recorded setter call on the value self.
Apply(self, c) ==
    CASE c.op = "set_keep_alive" -> set_keep_alive(self, c.arg)
      [] c.op = "set_max_packet_size" -> set_max_packet_size(self, c.arg)
      [] c.op = "set_clean_session" -> set_clean_session(self, c.arg)
      [] c.op = "set_reconnect_opts" -> set_reconnect_opts(self, c.arg)
      [] c.op = "set_tls_opts" -> set_tls_opts(self, c.arg)
      [] c.op = "set_last_will" -> set_last_will(self, c.arg)

\* The caller holds a value, calls a setter on it and keeps what it returns;
\* a panic ends the chain and leaves no value.
Chain(c, r) ==
    /\ pc = "ok"
    /\ Len(calls) < MaxCalls + 1
    /\ calls' = Append(calls, c)
    /\ IF r[1] = "Panic"
       THEN pc' = "panicked" /\ opts' = None
       ELSE pc' = "ok" /\ opts' = Some(r[2])
    /\ UNCHANGED overflow_checks

New ==
    \E id \in ClientIds, addr \in BrokerAddrs :
        /\ pc = "start"
        /\ pc' = "ok"
        /\ opts' = Some(new(id, addr))
        /\ calls' = <<Call("new", <<id, addr>>)>>
        /\ UNCHANGED overflow_checks

SetKeepAlive ==
    \E secs \in KeepAliveArgs :
        pc = "ok" /\ Chain(Call("set_keep_alive", secs),
                           set_keep_alive(opts[2], secs))

SetMaxPacketSize ==
    \E sz \in PacketSizeArgs :
        pc = "ok" /\ Chain(Call("set_max_packet_size", sz),
                           set_max_packet_size(opts[2], sz))

SetCleanSession ==
    \E b \in BOOLEAN :
        pc = "ok" /\ Chain(Call("set_clean_session", b),
                           set_clean_session(opts[2], b))

SetReconnectOpts ==
    \E o \in ReconnectOptions :
        pc = "ok" /\ Chain(Call("set_reconnect_opts", o),
                           set_reconnect_opts(opts[2], o))

SetTlsOpts ==
    \E o \in TlsArgs :
        pc = "ok" /\ Chain(Call("set_tls_opts", o),
                           set_tls_opts(opts[2], o))

SetLastWill ==
    \E w \in LastWillArgs :
        pc = "ok" /\ Chain(Call("set_last_will", w),
                           set_last_will(opts[2], w))

Init ==
    /\ pc = "start"
    /\ opts = None
    /\ calls = <<>>
    /\ overflow_checks \in BOOLEAN

Next ==
    \/ New
    \/ SetKeepAlive
    \/ SetMaxPacketSize
    \/ SetCleanSession
    \/ SetReconnectOpts
    \/ SetTlsOpts
    \/ SetLastWill

Spec == Init /\ [][Next]_vars

\* ------------------------------------------------- the connection supervisor
\* How the connection supervisor reads a reconnect policy at a disconnection:
\* TRUE when it schedules a retry, given whether a connection has succeeded
\* before.
RetryScheduled(policy, had_success) ==
    CASE policy[1] = "Never" -> FALSE
      [] policy[1] = "AfterFirstSuccess" -> had_success
      [] policy[1] = "Always" -> TRUE

\* ------------------------------------------------------------------ helpers
\* The last call made, and the setter calls made after MqttOptions::new.
LastCall == calls[Len(calls)]
SetterCalls == SubSeq(calls, 2, Len(calls))

\* What the chain has produced: the value held, or a panic.
Outcome == IF pc = "panicked" THEN Panic ELSE Ok(opts[2])

\* The value MqttOptions::new returned at the head of the chain.
Fresh == new(calls[1].arg[1], calls[1].arg[2])

\* The field a setter is documented to set.
FieldOf(op) ==
    CASE op = "set_keep_alive" -> "keep_alive"
      [] op = "set_max_packet_size" -> "max_packet_size"
      [] op = "set_clean_session" -> "clean_session"
      [] op = "set_reconnect_opts" -> "reconnect"
      [] op = "set_tls_opts" -> "tls"
      [] op = "set_last_will" -> "last_will"

\* The outcome of making the calls of cs, in order, starting from outcome o;
\* nothing is called after a panic.
RECURSIVE Run(_, _)
Run(o, cs) ==
    IF cs = <<>> \/ o[1] = "Panic"
    THEN o
    ELSE Run(Apply(o[2], Head(cs)), Tail(cs))

\* The permutations of 1..n, for every chain length the model reaches.
Permutations ==
    [n \in 0..MaxCalls |->
        {p \in [1..n -> 1..n] : \A i, j \in 1..n : p[i] = p[j] => i = j}]

Permuted(cs, p) == [i \in 1..Len(cs) |-> cs[p[i]]]

DistinctSetters(cs) ==
    \A i, j \in 1..Len(cs) : cs[i].op = cs[j].op => i = j

\* The place of a setter in the order the impl block declares them.
SetterRank(op) ==
    CASE op = "set_keep_alive" -> 1
      [] op = "set_max_packet_size" -> 2
      [] op = "set_clean_session" -> 3
      [] op = "set_reconnect_opts" -> 4
      [] op = "set_tls_opts" -> 5
      [] op = "set_last_will" -> 6

\* cs calls its setters in declaration order.
InDeclarationOrder(cs) ==
    \A i \in 1..(Len(cs) - 1) : SetterRank(cs[i].op) < SetterRank(cs[i + 1].op)

\* The index of the last call to setter op, or 0 when there is none.
LastCallTo(op) ==
    LET is == {i \in 1..Len(calls) : calls[i].op = op}
    IN  IF is = {} THEN 0 ELSE CHOOSE i \in is : \A j \in is : j <= i

C2_KeepAliveFloor ==
    (Len(calls) >= 2 /\ LastCall.op = "set_keep_alive") =>
        /\ LastCall.arg < 5 => (pc = "panicked" /\ opts = None)
        /\ LastCall.arg >= 5 =>
               (pc = "ok" /\ opts[1] = "Some"
                          /\ opts[2].keep_alive = Some(LastCall.arg))

C2_Witness ==
    /\ Len(calls) >= 2
    /\ LastCall = Call("set_keep_alive", 5)
    /\ pc = "ok"
    /\ opts[2].keep_alive = Some(5)

\* C3: for every n the usize argument can hold, set_max_packet_size(n)
\* returns a value whose max_packet_size is the integer product n * 1024.
C3_PacketSizeProduct ==
    (Len(calls) >= 2 /\ LastCall.op = "set_max_packet_size") =>
        /\ pc = "ok"
        /\ opts[1] = "Some"
        /\ opts[2].max_packet_size = LastCall.arg * 1024

\* C4: calls to distinct setters commute: every permutation of the calls,
\* made on the value MqttOptions::new returned, ends in the same outcome as
\* the chain that was made.  Each collection of calls is compared from one
\* chain that makes it: the one in declaration order, and every chain that
\* ends in a panic.
C4_SettersCommute ==
    (/\ pc # "start"
     /\ DistinctSetters(SetterCalls)
     /\ (InDeclarationOrder(SetterCalls) \/ pc = "panicked")) =>
        \A p \in Permutations[Len(SetterCalls)] :
            Run(Ok(Fresh), Permuted(SetterCalls, p)) = Outcome

C4_Witness ==
    /\ pc = "ok"
    /\ Len(calls) = 4
    /\ calls[2] = Call("set_max_packet_size", 50)
    /\ calls[3] = Call("set_clean_session", FALSE)
    /\ calls[4] = Call("set_reconnect_opts", Never)
    /\ \A p \in Permutations[3] :
           Run(Ok(Fresh), Permuted(SetterCalls, p)) =
               Ok([Fresh EXCEPT !.clean_session = FALSE,
                                !.max_packet_size = 51200,
                                !.reconnect = Never])

\* C5: in every value reached from MqttOptions::new by successful setter
\* calls, keep_alive, when it is Some(k), has k >= 5.
C5_KeepAliveAtLeastFive ==
    (pc = "ok" /\ opts[2].keep_alive[1] = "Some") =>
        opts[2].keep_alive[2] >= 5

C5_Witness ==
    /\ pc = "ok"
    /\ LastCallTo("set_keep_alive") > 0
    /\ opts[2].keep_alive = Some(5)

\* C6: only set_keep_alive can panic: set_max_packet_size, set_clean_session,
\* set_reconnect_opts, set_tls_opts and set_last_will return a value for
\* every argument.
C6_OtherSettersTotal ==
    (Len(calls) >= 2 /\ LastCall.op # "set_keep_alive") =>
        (pc = "ok" /\ opts[1] = "Some")

\* C7: while set_reconnect_opts has not been called, the reconnect policy is
\* one under which no retry is scheduled after a disconnection, whether or
\* not a connection has succeeded before.
C7_NoRetryByDefault ==
    (pc = "ok" /\ LastCallTo("set_reconnect_opts") = 0) =>
        \A had_success \in BOOLEAN :
            ~RetryScheduled(opts[2].reconnect, had_success)

\* C8: a setter that returns a value changes no field but its own, and
\* client_id, broker_addr and mqtt_connection_timeout keep the values
\* MqttOptions::new gave them.
C8_SettersFrame ==
    [][(pc' = "ok" /\ Len(calls') >= 2) =>
          /\ \A f \in Fields \ {FieldOf(calls'[Len(calls')].op)} :
                 opts'[2][f] = opts[2][f]
          /\ opts'[2].client_id = calls'[1].arg[1]
          /\ opts'[2].broker_addr = calls'[1].arg[2]
          /\ opts'[2].mqtt_connection_timeout = 5]_vars

C8_Witness ==
    /\ pc = "ok"
    /\ Len(calls) = 3
    /\ calls[2] = Call("set_keep_alive", 15)
    /\ calls[3] = Call("set_max_packet_size", 256)
    /\ opts[2] = [Fresh EXCEPT !.keep_alive = Some(15),
                               !.max_packet_size = 262144]

\* C9: set_tls_opts, set_last_will and set_reconnect_opts replace
\* unconditionally: once one of them has been called, its field holds the
\* argument of the last call to it, and None clears a value set before.
C9_LastCallWins ==
    pc = "ok" =>
        \A op \in {"set_tls_opts", "set_last_will", "set_reconnect_opts"} :
            LastCallTo(op) > 0 =>
                opts[2][FieldOf(op)] = calls[LastCallTo(op)].arg

C9_Witness ==
    /\ pc = "ok"
    /\ \E i, j \in 1..Len(calls) :
           /\ i < j
           /\ calls[i].op = "set_tls_opts" /\ calls[i].arg[1] = "Some"
           /\ calls[j] = Call("set_tls_opts", None)
    /\ LastCallTo("set_tls_opts") > 0
    /\ calls[LastCallTo("set_tls_opts")].arg = None
    /\ opts[2].tls = None

\* C10: in every value reached from MqttOptions::new by setter calls,
\* keep_alive is Some(k), never None.
C10_KeepAliveNeverNone ==
    pc = "ok" => (opts[2].keep_alive # None /\ opts[2].keep_alive[1] = "Some")

C10_Witness ==
    /\ pc = "ok"
    /\ Len(calls) >= 2
    /\ LastCall = Call("set_keep_alive", U16Modulus - 1)
    /\ opts[2].keep_alive = Some(U16Modulus - 1)

====
